---- MODULE Spec2Model ----
(***************************************************************************)
(* Stripe webhook reconciliation of schriftbot-backend.                    *)
(*                                                                         *)
(* The repository holds several drafts of the same server.  Four of them   *)
(* are modelled, selected by the variable `variant`, which is fixed in the *)
(* initial state and never changes:                                        *)
(*   "index"  src/index.js            overwrite of credits, no ledger      *)
(*   "p000"   src/unnamed/part_000    increment + arrayUnion, no pre-check *)
(*   "p002"   src/unnamed/part_002    get, pre-check, read-modify-write    *)
(*   "p003"   src/unnamed/part_003    get, pre-check, increment+arrayUnion *)
(*                                                                         *)
(* A webhook delivery is handled by an async function; its awaits are the  *)
(* only suspension points, so one action is one await-to-await segment.    *)
(* Two handler slots (Procs) run concurrently against one Firestore.       *)
(* Every provider lookup and every store call may fail (reject); a set()   *)
(* that rejects has stored nothing (a single-document write is atomic).    *)
(*                                                                         *)
(* Spec runs all deliveries for one user; SpecSeq handles them one at a    *)
(* time; SpecFirstCycle is a subscription's own sequence of events;        *)
(* SpecTwoUsers has deliveries for two users; SpecResolve computes the     *)
(* credits of a product for every short metadata string.                   *)
(*                                                                         *)
(* Firebase initialisation is taken to have succeeded (db is defined).     *)
(* A timestamp (new Date(), serverTimestamp) is either the latest one      *)
(* handed out or a later one, so two writes may carry the same date.       *)
(* The checkout-only servers of src/unnamed/part_001 are not modelled.     *)
(***************************************************************************)
EXTENDS Integers, Sequences, FiniteSets, TLC

VARIABLES
  variant,    \* which draft of the server is running
  users,      \* Firestore collection "users": uid -> document (field -> value)
  pc,         \* per handler slot: the await the handler is suspended at
  event,      \* per handler slot: the delivery being handled
  snap,       \* per handler slot: `doc`, the snapshot read by userRef.get()
  resp,       \* per handler slot: the sequence of HTTP statuses sent on `res`
  calls,      \* per handler slot: provider / store calls issued for the delivery
  now,        \* the latest timestamp handed out (Date / serverTimestamp)
  delivered,  \* number of deliveries received so far
  applied,    \* uid -> invoice id -> number of committed crediting writes
  outcome,    \* per handler slot: how the delivery ended (the line it logged)
  metadata,   \* product.metadata of the product whose credits are resolved
  resolved    \* <<>>, or <<n>> once credits = parseInt(...) was computed

vars == <<variant, users, pc, event, snap, resp, calls, now, delivered, applied,
          outcome, metadata, resolved>>

----------------------------------------------------------------------------
(* Bounds *)

MaxDeliveries == 3

Procs == {"w1", "w2"}
Variants == {"index", "p000", "p002", "p003"}
UIDs == {"u1", "u2"}
\* The users the deliveries of Spec, SpecSeq and SpecFirstCycle are for; the
\* store holds the records of all UIDs.
Subscribers == {"u1"}
NoUid == "no_uid"
InvoiceIds == {"in_1", "in_2"}

----------------------------------------------------------------------------
(* The provider's product catalog: operator-authored metadata (strings).   *)
(* A string is a sequence of one-character strings, so that parseInt can   *)
(* be computed as JavaScript computes it.                                  *)

ProductIds == {"prod_pro", "prod_unl"}

Product(id) ==
  CASE id = "prod_pro" ->
         [name |-> "Pro product", amount |-> 1900,
          metadata |-> [credits |-> <<"5", "0">>, isUnlimited |-> "false",
                        planName |-> "Pro"]]
    [] id = "prod_unl" ->
         [name |-> "Unlimited", amount |-> 4900,
          metadata |-> [isUnlimited |-> "true"]]

UNLIMITED == 999999

NaN == -2147483647

DigitChars == <<"0", "1", "2", "3", "4", "5", "6", "7", "8", "9">>

IsDigit(c) == \E d \in 1..10 : DigitChars[d] = c

DigitVal(c) == (CHOOSE d \in 1..10 : DigitChars[d] = c) - 1

RECURSIVE ParseDigits(_, _, _)
ParseDigits(s, i, acc) ==
  IF i > Len(s) \/ ~IsDigit(s[i]) THEN acc
  ELSE ParseDigits(s, i + 1, acc * 10 + DigitVal(s[i]))

RECURSIVE SkipSpace(_, _)
SkipSpace(s, i) ==
  IF i <= Len(s) /\ s[i] = " " THEN SkipSpace(s, i + 1) ELSE i

\* JavaScript parseInt(string): leading white space, an optional sign, then
\* the longest prefix of decimal digits; NaN when there is no digit.
parseInt(s) ==
  LET i0   == SkipSpace(s, 1)
      sgn  == IF i0 <= Len(s) /\ s[i0] = "-" THEN -1 ELSE 1
      i1   == IF i0 <= Len(s) /\ s[i0] \in {"-", "+"} THEN i0 + 1 ELSE i0
  IN IF i1 > Len(s) \/ ~IsDigit(s[i1]) THEN NaN
     ELSE sgn * ParseDigits(s, i1, 0)

\* JavaScript number addition with NaN absorbing.
NumAdd(a, b) == IF a = NaN \/ b = NaN THEN NaN ELSE a + b

Has(f, k) == k \in DOMAIN f

\* parseInt(product.metadata.credits || "0")
CreditsOf(product) ==
  LET m == product.metadata
  IN parseInt(IF Has(m, "credits") /\ m.credits # <<>> THEN m.credits
              ELSE <<"0">>)

\* product.metadata.isUnlimited === "true"
IsUnlimitedOf(product) ==
  Has(product.metadata, "isUnlimited") /\ product.metadata.isUnlimited = "true"

\* product.metadata.planName || product.name
PlanNameOf(product) ==
  LET m == product.metadata
  IN IF Has(m, "planName") /\ m.planName # "" THEN m.planName ELSE product.name

----------------------------------------------------------------------------
(* Deliveries *)

Ev(t, s, i, h, u, pr, r) ==
  [type |-> t, sig |-> s, invoice |-> i, hasSub |-> h, uid |-> u,
   product |-> pr, reason |-> r]

\* Fields a handler never reads for an event of that shape are held at fixed
\* values, so that deliveries the handler cannot tell apart are one event.
NoEvent == Ev("none", "invalid", "in_1", FALSE, NoUid, "prod_pro", "none")

\* The event type the draft's invoice handler listens to.
InvoiceEventName(v) ==
  IF v = "index" THEN "invoice.payment_succeeded" ELSE "invoice.paid"

\* The event types draft v has a handler for.
Handled(v) ==
  CASE v = "index" -> {"invoice.payment_succeeded", "customer.subscription.deleted"}
    [] v = "p000"  -> {"invoice.paid", "customer.subscription.deleted"}
    [] v = "p002"  -> {"checkout.session.completed", "invoice.paid",
                       "customer.subscription.deleted"}
    [] v = "p003"  -> {"checkout.session.completed", "invoice.paid"}

EventTypes ==
  {"checkout.session.completed", "invoice.paid", "invoice.payment_succeeded",
   "invoice.payment_failed", "customer.subscription.deleted", "customer.created"}

\* Billing reasons that draft v tells apart (index and part_000 never read
\* invoice.billing_reason).
Reasons(v) ==
  IF v \in {"p002", "p003"} THEN {"subscription_create", "subscription_cycle"}
  ELSE {"subscription_cycle"}

\* The deliveries draft v can receive.
Events(v) ==
     \* first-cycle checkout: session.client_reference_id, session.invoice
     { Ev("checkout.session.completed", "valid", i, TRUE, u, pr,
          "subscription_create") :
          i \in InvoiceIds, u \in Subscribers,
          pr \in IF "checkout.session.completed" \in Handled(v)
                 THEN ProductIds ELSE {} }
  \cup { Ev("checkout.session.completed", "valid", "in_1", TRUE, NoUid,
            "prod_pro", "subscription_create") }
     \* invoices of a subscription whose metadata carries the uid
  \cup { Ev(InvoiceEventName(v), "valid", i, TRUE, u, pr, r) :
           i \in InvoiceIds, u \in Subscribers, pr \in ProductIds, r \in Reasons(v) }
     \* invoice of a subscription without uid metadata; invoice without subscription
  \cup { Ev(InvoiceEventName(v), "valid", "in_1", TRUE, NoUid, "prod_pro",
            "subscription_cycle"),
         Ev(InvoiceEventName(v), "valid", "in_1", FALSE, NoUid, "prod_pro",
            "manual") }
  \cup { Ev("customer.subscription.deleted", "valid", "in_1", TRUE, u,
            "prod_pro", "none") : u \in Subscribers \cup {NoUid} }
     \* types the draft has no handler for
  \cup { Ev(t, "valid", "in_1", TRUE, u, "prod_pro", "none") :
           t \in EventTypes \ Handled(v), u \in Subscribers }
     \* deliveries whose signature header is missing or wrong
  \cup { Ev(t, "invalid", "in_1", TRUE, u, "prod_pro", "subscription_cycle") :
           t \in Handled(v), u \in Subscribers }

\* Mutant: the event is decoded without verifying the signature.
constructEvent_unverified(e) == e.sig \in {"valid", "invalid"}

\* stripe.webhooks.constructEvent / constructEventAsync: TRUE iff it returns
\* the event, FALSE iff it throws.
constructEvent(e) == e.sig = "valid"

\* invoice.subscription / session.subscription and invoice.customer /
\* session.customer: one subscription and one customer per user.
Subscription(e) == [id |-> "sub", of |-> e.uid]
Customer(e) == [id |-> "cus", of |-> e.uid]

----------------------------------------------------------------------------
(* Firestore documents *)

NoDoc == [k \in {} |-> 0]

DocExists(d) == DOMAIN d # {}

\* FieldValue.increment(n) applied to the stored document.
Increment(d, n) == IF Has(d, "credits") THEN NumAdd(d.credits, n) ELSE n

\* FieldValue.arrayUnion(e): appends e unless an equal element is present.
ArrayUnion(d, e) ==
  LET arr == IF Has(d, "payments") THEN d.payments ELSE <<>>
  IN IF \E i \in DOMAIN arr : arr[i] = e THEN arr ELSE Append(arr, e)

\* Mutant: a write that sets plan "expired" removes the document.
MergeSet_dropsExpired(d, fields) ==
  IF Has(fields, "plan") /\ fields.plan = "expired" THEN NoDoc ELSE fields @@ d

\* set(fields, { merge: true })
MergeSet(d, fields) == fields @@ d

\* Mutant: a set() that rejects has stored the credits field all the same.
RejectedSet_partial(d, fields) ==
  [k \in {"credits"} \cap DOMAIN fields |-> fields[k]] @@ d

\* A set() that rejects: the write is atomic, none of its fields is stored.
RejectedSet(d, fields) == d

\* The id an entry of the payments ledger was recorded for.
SourceId(entry) ==
  IF Has(entry, "invoiceId") THEN entry.invoiceId ELSE entry.sessionId

LedgerOf(d) == IF Has(d, "payments") THEN d.payments ELSE <<>>

LedgerCount(d, id) ==
  Cardinality({i \in DOMAIN LedgerOf(d) : SourceId(LedgerOf(d)[i]) = id})

----------------------------------------------------------------------------
(* What the handlers write *)

\* The entitlement delta resolved from the product of the event.
Delta(e) ==
  LET product == Product(e.product)
  IN [creditsToAdd |-> CreditsOf(product),
      isUnlimited  |-> IsUnlimitedOf(product),
      planName     |-> PlanNameOf(product),
      invoiceId    |-> e.invoice]

\* Mutant: the unlimited branch of the credits expression is missing.
IndexFields_noSentinel(e, t) ==
  LET data == Delta(e)
  IN [credits           |-> data.creditsToAdd,
      isUnlimited       |-> data.isUnlimited,
      plan              |-> data.planName,
      lastPaymentStatus |-> "active",
      subscriptionId    |-> Subscription(e),
      stripeCustomerId  |-> Customer(e),
      updatedAt         |-> t]

\* src/index.js: updateData, an overwrite of credits.
IndexFields(e, t) ==
  LET data == Delta(e)
  IN [credits           |-> IF data.isUnlimited THEN UNLIMITED ELSE data.creditsToAdd,
      isUnlimited       |-> data.isUnlimited,
      plan              |-> data.planName,
      lastPaymentStatus |-> "active",
      subscriptionId    |-> Subscription(e),
      stripeCustomerId  |-> Customer(e),
      updatedAt         |-> t]

\* part_000: increment and arrayUnion, keyed by sessionId, no pre-check.
P000Fields(e, d, t) ==
  LET data == Delta(e)
  IN [credits           |-> IF data.isUnlimited THEN UNLIMITED
                            ELSE Increment(d, data.creditsToAdd),
      isUnlimited       |-> data.isUnlimited,
      plan              |-> data.planName,
      lastPaymentStatus |-> "active",
      subscriptionId    |-> Subscription(e),
      updatedAt         |-> t,
      payments          |-> ArrayUnion(d,
                              [sessionId |-> e.invoice,
                               amount    |-> Product(e.product).amount \div 100,
                               credits   |-> data.creditsToAdd,
                               date      |-> t,
                               status    |-> "completed"])]

\* doc.exists ? doc.data().credits || 0 : 0
CurrentCredits(sn) ==
  IF DocExists(sn) /\ Has(sn, "credits") /\ sn.credits # NaN THEN sn.credits ELSE 0

\* part_002 updateFirestoreUser: credits computed from the snapshot read before.
P002Fields(e, d, sn, t) ==
  LET data == Delta(e)
  IN [credits           |-> IF data.isUnlimited THEN UNLIMITED
                            ELSE NumAdd(CurrentCredits(sn), data.creditsToAdd),
      isUnlimited       |-> data.isUnlimited,
      plan              |-> data.planName,
      lastPaymentStatus |-> "active",
      stripeCustomerId  |-> Customer(e),
      updatedAt         |-> t,
      payments          |-> ArrayUnion(d,
                              [invoiceId |-> data.invoiceId,
                               credits   |-> data.creditsToAdd,
                               date      |-> t])]

\* part_003 updateFirestoreUser: increment on write.  The invoice.paid caller
\* passes no customerId and db ignores undefined properties.
P003Fields(e, d, t) ==
  LET data == Delta(e)
      base == [credits           |-> IF data.isUnlimited THEN UNLIMITED
                                     ELSE Increment(d, data.creditsToAdd),
               isUnlimited       |-> data.isUnlimited,
               plan              |-> data.planName,
               lastPaymentStatus |-> "active",
               updatedAt         |-> t,
               payments          |-> ArrayUnion(d,
                                       [invoiceId |-> data.invoiceId,
                                        credits   |-> data.creditsToAdd,
                                        date      |-> t])]
  IN IF e.type = "checkout.session.completed"
     THEN [stripeCustomerId |-> Customer(e)] @@ base
     ELSE base

\* Mutant: src/index.js adds the credits of the product to the stored ones.
CreditFields_indexAdds(v, e, d, sn, t) ==
  CASE v = "index" -> [IndexFields(e, t) EXCEPT !.credits = Increment(d, @)]
    [] v = "p000"  -> P000Fields(e, d, t)
    [] v = "p002"  -> P002Fields(e, d, sn, t)
    [] v = "p003"  -> P003Fields(e, d, t)

\* The fields of the crediting write of draft v, for the stored document d
\* and the snapshot sn.
CreditFields(v, e, d, sn, t) ==
  CASE v = "index" -> IndexFields(e, t)
    [] v = "p000"  -> P000Fields(e, d, t)
    [] v = "p002"  -> P002Fields(e, d, sn, t)
    [] v = "p003"  -> P003Fields(e, d, t)

\* Mutant: the cancellation write does not reset the unlimited flag.
CancelFields_keepsUnlimited(v, t) ==
  IF v = "p000"
  THEN [credits |-> 0, plan |-> "expired", lastPaymentStatus |-> "canceled"]
  ELSE [credits |-> 0, plan |-> "expired", lastPaymentStatus |-> "canceled",
        updatedAt |-> t]

\* Mutant: the cancellation write resets the ledger and the subscription.
CancelFields_resetsAll(v, t) ==
  [credits |-> 0, isUnlimited |-> FALSE, plan |-> "expired",
   lastPaymentStatus |-> "canceled", updatedAt |-> t, payments |-> <<>>,
   subscriptionId |-> "none", stripeCustomerId |-> "none"]

\* customer.subscription.deleted: the fields of the cancellation write.
CancelFields(v, t) ==
  CASE v = "index" -> [credits |-> 0, isUnlimited |-> FALSE, plan |-> "expired",
                       lastPaymentStatus |-> "canceled", updatedAt |-> t]
    [] v = "p000"  -> [credits |-> 0, isUnlimited |-> FALSE, plan |-> "expired",
                       lastPaymentStatus |-> "canceled"]
    [] v = "p002"  -> [credits |-> 0, isUnlimited |-> FALSE, plan |-> "expired",
                       updatedAt |-> t]

\* Mutant: the pre-check compares the key of the older ledger format.
IsDuplicate_sessionId(sn, invoiceId) ==
  /\ DocExists(sn)
  /\ Has(sn, "payments")
  /\ \E i \in DOMAIN sn.payments :
        Has(sn.payments[i], "sessionId") /\ sn.payments[i].sessionId = invoiceId

\* doc.exists && doc.data().payments?.some((p) => p.invoiceId === data.invoiceId)
IsDuplicate(sn, invoiceId) ==
  /\ DocExists(sn)
  /\ Has(sn, "payments")
  /\ \E i \in DOMAIN sn.payments :
        Has(sn.payments[i], "invoiceId") /\ sn.payments[i].invoiceId = invoiceId

----------------------------------------------------------------------------
(* The webhook handler *)

\* The server started, nothing stored, no request in flight.
InitServer ==
  /\ variant \in Variants
  /\ users = [u \in UIDs |-> NoDoc]
  /\ pc = [p \in Procs |-> "idle"]
  /\ event = [p \in Procs |-> NoEvent]
  /\ snap = [p \in Procs |-> NoDoc]
  /\ resp = [p \in Procs |-> <<>>]
  /\ calls = [p \in Procs |-> [provider |-> 0, store |-> 0]]
  /\ now = 0
  /\ delivered = 0
  /\ applied = [u \in UIDs |-> [i \in InvoiceIds |-> 0]]
  /\ outcome = [p \in Procs |-> "none"]

Init ==
  /\ InitServer
  /\ metadata = Product("prod_pro").metadata
  /\ resolved = <<>>

\* Mutant: the invoice handler is selected by the "invoice." prefix.
IsType_prefix(e, t) ==
  LET invoiceTypes == {"invoice.paid", "invoice.payment_succeeded",
                       "invoice.payment_failed"}
  IN e.type = t \/ (t \in invoiceTypes /\ e.type \in invoiceTypes)

\* event.type === t
IsType(e, t) == e.type = t

\* Mutant: the uid is used without being tested.
UidFound_unchecked(u) == u \in UIDs \cup {NoUid}

\* if (uid) / if (!uid)
UidFound(u) == u # NoUid

\* Mutant: every paid invoice is credited, the first one of a subscription too.
BillingReasonCredited_any(v, e) == e.reason # "none"

\* The test of invoice.billing_reason that guards the crediting of an invoice.
BillingReasonCredited(v, e) ==
  CASE v = "p002" -> e.reason = "subscription_cycle"
    [] v = "p003" -> e.reason # "subscription_create"
    [] OTHER      -> TRUE

\* The await the handler of draft v reaches first for the authenticated
\* event e; "done" when it falls through to res.json({ received: true }).
Route(v, e) ==
  CASE v = "index" ->
         IF IsType(e, "invoice.payment_succeeded")
         THEN (IF ~e.hasSub THEN "done" ELSE "sub_retrieve")
         ELSE IF IsType(e, "customer.subscription.deleted") /\ UidFound(e.uid)
         THEN "cancel_set" ELSE "done"
    [] v = "p000" ->
         IF IsType(e, "invoice.paid")
         THEN (IF ~e.hasSub \/ ~UidFound(e.uid) THEN "done" ELSE "prod_retrieve")
         ELSE IF IsType(e, "customer.subscription.deleted") /\ UidFound(e.uid)
         THEN "cancel_set" ELSE "done"
    [] v = "p002" ->
         IF IsType(e, "checkout.session.completed")
         THEN (IF UidFound(e.uid) THEN "session_retrieve" ELSE "done")
         ELSE IF IsType(e, "invoice.paid")
         THEN (IF BillingReasonCredited(v, e) THEN "sub_retrieve" ELSE "done")
         ELSE IF IsType(e, "customer.subscription.deleted") /\ UidFound(e.uid)
         THEN "cancel_set" ELSE "done"
    [] v = "p003" ->
         IF IsType(e, "checkout.session.completed")
         THEN (IF UidFound(e.uid) THEN "session_retrieve" ELSE "done")
         ELSE IF IsType(e, "invoice.paid")
         THEN (IF BillingReasonCredited(v, e) THEN "sub_retrieve" ELSE "done")
         ELSE "done"

\* The status the handler of draft v answers when the await at `at` rejects:
\* index and part_000 return 500 from the invoice try/catch; the Deno drafts
\* catch and fall through to res.json; index catches the cancellation error.
FailStatus(v, at) ==
  IF v \in {"index", "p000"} /\ at \in {"sub_retrieve", "prod_retrieve", "set"}
  THEN 500 ELSE 200

\* part_000 awaits the cancellation write outside any try: the rejection
\* leaves the async handler and no response is ever sent.
Unhandled(v, at) == v = "p000" /\ at = "cancel_set"

\* Mutant: a response other than the final one is not followed by return.
Respond_noReturn(p, status, how) ==
  /\ pc' = [pc EXCEPT ![p] = "done"]
  /\ resp' = [resp EXCEPT ![p] =
                IF how \in {"failed", "no_uid"} THEN <<status, 200>>
                ELSE Append(@, status)]
  /\ outcome' = [outcome EXCEPT ![p] = how]

Respond(p, status, how) ==
  /\ pc' = [pc EXCEPT ![p] = "done"]
  /\ resp' = [resp EXCEPT ![p] = Append(@, status)]
  /\ outcome' = [outcome EXCEPT ![p] = how]

Busy(q) == pc[q] \notin {"idle", "done"}

\* A delivery takes the first handler slot that is free.  A delivery that is
\* answered before its first await overlaps with no step of another handler,
\* so it is shown on slot w1 only.
FirstFree(p, e) ==
  /\ ~Busy(p)
  /\ p = "w2" => Busy("w1") /\ constructEvent(e) /\ Route(variant, e) # "done"

\* Mutant: the handler answers before it goes on to the next await.
Goto_ackFirst(p, at) ==
  /\ pc' = [pc EXCEPT ![p] = at]
  /\ resp' = [resp EXCEPT ![p] = Append(@, 200)]
  /\ UNCHANGED outcome

\* The handler goes on to its next await without answering.
Goto(p, at) ==
  /\ pc' = [pc EXCEPT ![p] = at]
  /\ UNCHANGED <<resp, outcome>>

Called(p, kind) ==
  calls' = [calls EXCEPT ![p][kind] = @ + 1]

\* An await rejected: answer per draft, or hang with no response.
Reject(p) ==
  IF Unhandled(variant, pc[p])
  THEN /\ pc' = [pc EXCEPT ![p] = "hung"]
       /\ outcome' = [outcome EXCEPT ![p] = "failed"]
       /\ UNCHANGED resp
  ELSE Respond(p, FailStatus(variant, pc[p]), "failed")

\* POST /webhook: signature check and dispatch, up to the first await.
Receive(p, e) ==
  /\ FirstFree(p, e)
  /\ delivered < MaxDeliveries
  /\ delivered' = delivered + 1
  /\ event' = [event EXCEPT ![p] = e]
  /\ snap' = [snap EXCEPT ![p] = NoDoc]
  /\ calls' = [calls EXCEPT ![p] = [provider |-> 0, store |-> 0]]
  /\ IF ~constructEvent(e)
     THEN /\ pc' = [pc EXCEPT ![p] = "done"]
          /\ resp' = [resp EXCEPT ![p] = <<400>>]
          /\ outcome' = [outcome EXCEPT ![p] = "bad_signature"]
     ELSE /\ pc' = [pc EXCEPT ![p] = Route(variant, e)]
          /\ resp' = [resp EXCEPT ![p] =
                        IF Route(variant, e) = "done" THEN <<200>> ELSE <<>>]
          /\ outcome' = [outcome EXCEPT ![p] =
                           IF Route(variant, e) = "done" THEN "ignored" ELSE "none"]
  /\ UNCHANGED <<variant, metadata, resolved, users, now, applied>>

\* await stripe.subscriptions.retrieve(invoice.subscription)
SubRetrieve(p) ==
  /\ pc[p] = "sub_retrieve"
  /\ Called(p, "provider")
  /\ \E ok \in BOOLEAN :
       /\ ok => event[p].hasSub
       /\ IF ~ok THEN Reject(p)
          ELSE IF ~UidFound(event[p].uid) THEN Respond(p, 200, "no_uid")
          ELSE Goto(p, "prod_retrieve")
  /\ UNCHANGED <<variant, metadata, resolved, users, event, snap, now, delivered, applied>>

\* await stripe.products.retrieve(...)
ProdRetrieve(p) ==
  /\ pc[p] = "prod_retrieve"
  /\ Called(p, "provider")
  /\ \E ok \in BOOLEAN :
       IF ~ok THEN Reject(p)
       ELSE Goto(p, IF variant \in {"index", "p000"} THEN "set" ELSE "get")
  /\ UNCHANGED <<variant, metadata, resolved, users, event, snap, now, delivered, applied>>

\* await stripe.checkout.sessions.retrieve(session.id, { expand })
SessionRetrieve(p) ==
  /\ pc[p] = "session_retrieve"
  /\ Called(p, "provider")
  /\ \E ok \in BOOLEAN :
       IF ~ok THEN Reject(p) ELSE Goto(p, "get")
  /\ UNCHANGED <<variant, metadata, resolved, users, event, snap, now, delivered, applied>>

\* Mutant: every delivery addresses the same document.
UserRef_shared(e) == IF e.uid = NoUid THEN NoUid ELSE "u1"

\* db.collection("users").doc(uid)
UserRef(e) == e.uid

\* updateFirestoreUser: await userRef.get() and the duplicate check.
UpdateGet(p) ==
  /\ pc[p] = "get"
  /\ Called(p, "store")
  /\ \E ok \in BOOLEAN :
       IF ~ok THEN Reject(p) /\ UNCHANGED snap
       ELSE LET doc == users[UserRef(event[p])]
            IN IF IsDuplicate(doc, event[p].invoice)
               THEN Respond(p, 200, "duplicate") /\ UNCHANGED snap
               ELSE Goto(p, "set") /\ snap' = [snap EXCEPT ![p] = doc]
  /\ UNCHANGED <<variant, metadata, resolved, users, event, now, delivered, applied>>

\* The crediting write: await userRef.set({...}, { merge: true }).
CreditSet(p) ==
  /\ pc[p] = "set"
  /\ Called(p, "store")
  /\ LET e == event[p]
         u == UserRef(e)
     IN \E ok \in BOOLEAN :
          IF ~ok
          THEN /\ Reject(p)
               /\ users' = [users EXCEPT ![u] =
                    RejectedSet(@, CreditFields(variant, e, @, snap[p], now))]
               /\ UNCHANGED <<now, applied>>
          ELSE \E t \in {now, now + 1} :
                 /\ now' = t
                 /\ users' = [users EXCEPT ![u] =
                      MergeSet(@, CreditFields(variant, e, @, snap[p], t))]
                 /\ applied' = [applied EXCEPT ![u][e.invoice] = @ + 1]
                 /\ Respond(p, 200, "credited")
  /\ snap' = [snap EXCEPT ![p] = NoDoc]
  /\ UNCHANGED <<variant, metadata, resolved, event, delivered>>

\* customer.subscription.deleted: await db.collection("users").doc(uid).set(...)
CancelSet(p) ==
  /\ pc[p] = "cancel_set"
  /\ Called(p, "store")
  /\ \E ok \in BOOLEAN :
       IF ~ok
       THEN /\ Reject(p)
            /\ users' = [users EXCEPT ![UserRef(event[p])] =
                           RejectedSet(@, CancelFields(variant, now))]
            /\ UNCHANGED now
       ELSE \E t \in {now, now + 1} :
              /\ now' = t
              /\ users' = [users EXCEPT ![UserRef(event[p])] =
                             MergeSet(@, CancelFields(variant, t))]
              /\ Respond(p, 200, "canceled")
  /\ UNCHANGED <<variant, metadata, resolved, event, snap, delivered, applied>>

\* One step of the handler running in slot p.
Step(p) ==
  \/ \E e \in Events(variant) : Receive(p, e)
  \/ SubRetrieve(p)
  \/ ProdRetrieve(p)
  \/ SessionRetrieve(p)
  \/ UpdateGet(p)
  \/ CreditSet(p)
  \/ CancelSet(p)

Next == \E p \in Procs : Step(p)

Spec == Init /\ [][Next]_vars

\* Deliveries one after the other: a single handler slot.
NextSeq == Step("w1")

SpecSeq == Init /\ [][NextSeq]_vars

\* The drafts that credit through updateFirestoreUser.
UsesUpdateFirestoreUser == variant \in {"p002", "p003"}

\* The deliveries of a subscription as the provider sends them: the checkout
\* session of the first cycle names the first invoice, "in_1", whose own
\* invoice.paid event has billing reason subscription_create; the renewal
\* invoice "in_2" has billing reason subscription_cycle.
FirstCycleEvents(v) ==
  { e \in Events(v) :
      /\ constructEvent(e)
      /\ e.uid \in UIDs
      /\ \/ e.type = "checkout.session.completed" /\ e.invoice = "in_1"
         \/ /\ e.type = "invoice.paid"
            /\ \/ e.invoice = "in_1" /\ e.reason = "subscription_create"
               \/ e.invoice = "in_2" /\ e.reason = "subscription_cycle" }

\* No other handler is working on a delivery of the same event.
NotInFlight(p, e) ==
  \A q \in Procs \ {p} :
    Busy(q) => ~(event[q].type = e.type /\ event[q].invoice = e.invoice
                                        /\ event[q].uid = e.uid)

InitFirstCycle == Init /\ UsesUpdateFirestoreUser

StepFirstCycle(p) ==
  \/ \E e \in FirstCycleEvents(variant) : NotInFlight(p, e) /\ Receive(p, e)
  \/ SubRetrieve(p)
  \/ ProdRetrieve(p)
  \/ SessionRetrieve(p)
  \/ UpdateGet(p)
  \/ CreditSet(p)

NextFirstCycle == \E p \in Procs : StepFirstCycle(p)

\* part_002 and part_003 receiving the checkout and the invoices of a
\* subscription, no event being delivered again while a delivery of it is
\* being handled.
SpecFirstCycle == InitFirstCycle /\ [][NextFirstCycle]_vars

----------------------------------------------------------------------------
(* Resolving the credits of a product: the metadata is operator-authored,  *)
(* so every short string over MetaChars is tried, and the field missing.   *)

MaxLen == 3

MetaChars == {"0", "5", "-", "a", " "}

\* The strings of at most n characters.
Strings(n) == UNION { [1..k -> MetaChars] : k \in 0..n }

\* product.metadata with and without the credits field.
Metadatas ==
  { [isUnlimited |-> "false"] }
    \cup { [credits |-> str, isUnlimited |-> "false"] : str \in Strings(MaxLen) }

InitResolve ==
  /\ InitServer
  /\ variant \in {"index", "p003"}
  /\ metadata \in Metadatas
  /\ resolved = <<>>

\* const credits = parseInt(product.metadata.credits || "0")
ResolveCredits ==
  /\ resolved = <<>>
  /\ resolved' = <<CreditsOf([metadata |-> metadata])>>
  /\ UNCHANGED <<variant, users, pc, event, snap, resp, calls, now, delivered,
                 applied, outcome, metadata>>

NextResolve == ResolveCredits

SpecResolve == InitResolve /\ [][NextResolve]_vars

----------------------------------------------------------------------------
(* Deliveries for two users: src/index.js and part_003 receiving, for each *)
(* user, the events that reach a store write.                              *)

TwoUserEvents(v) ==
  { [e EXCEPT !.uid = u] :
      e \in { x \in Events(v) : /\ constructEvent(x)
                                /\ x.uid \in Subscribers
                                /\ x.invoice = "in_1"
                                /\ x.product = "prod_pro"
                                /\ Route(v, x) # "done" },
      u \in UIDs }

InitTwoUsers == Init /\ variant \in {"index", "p003"}

StepTwoUsers(p) ==
  \/ \E e \in TwoUserEvents(variant) : Receive(p, e)
  \/ SubRetrieve(p)
  \/ ProdRetrieve(p)
  \/ SessionRetrieve(p)
  \/ UpdateGet(p)
  \/ CreditSet(p)
  \/ CancelSet(p)

NextTwoUsers == \E p \in Procs : StepTwoUsers(p)

SpecTwoUsers == InitTwoUsers /\ [][NextTwoUsers]_vars

----------------------------------------------------------------------------
(* Properties *)

\* doc.credits, an absent field read as 0
Cred(d) == IF Has(d, "credits") THEN d.credits ELSE 0

\* The step in which slot p's crediting write commits.
CreditCommitted(p) ==
  pc[p] = "set" /\ pc'[p] = "done" /\ outcome'[p] = "credited"

\* The step in which slot p's cancellation write commits.
CancelCommitted(p) ==
  pc[p] = "cancel_set" /\ pc'[p] = "done" /\ outcome'[p] = "canceled"

C1_AtMostOnce ==
  UsesUpdateFirestoreUser =>
    \A u \in UIDs, i \in InvoiceIds :
      /\ applied[u][i] <= 1
      /\ LedgerCount(users[u], i) = applied[u][i]

C1_Step ==
  UsesUpdateFirestoreUser =>
    \A p \in Procs :
      LET e == event[p]
          data == Delta(e)
      IN /\ (CreditCommitted(p) /\ ~data.isUnlimited) =>
              users'[e.uid].credits = Cred(users[e.uid]) + data.creditsToAdd
         /\ (pc[p] \in {"get", "set"} /\ applied[e.uid][e.invoice] >= 1) =>
              users' = users /\ applied' = applied

\* C1: with deliveries handled one after the other, an invoice id handed to
\* updateFirestoreUser (part_002, part_003) is credited at most once and has
\* exactly as many ledger entries as crediting writes; the crediting write
\* adds exactly the resolved amount, and a delivery of an id already applied
\* changes no record.
C1_RedeliveredOnce == [] C1_AtMostOnce /\ [][C1_Step]_vars

\* C1 witness: in part_003 a redelivery of an applied invoice id has been
\* answered as a duplicate, the credits being those of one application.
C1_Witness ==
  /\ variant = "p003"
  /\ pc["w1"] = "done" /\ outcome["w1"] = "duplicate"
  /\ applied[event["w1"].uid][event["w1"].invoice] = 1
  /\ delivered = 3
  /\ Cred(users[event["w1"].uid]) = 50
  /\ Len(LedgerOf(users[event["w1"].uid])) = 1

\* C2: in part_003 two concurrent deliveries of the same event never both
\* pass the duplicate check and both credit: an invoice id is credited at
\* most once per user.
C2_ConcurrentSingleApplication ==
  variant = "p003" => \A u \in UIDs, i \in InvoiceIds : applied[u][i] <= 1

\* C3: a user's payments ledger never holds two entries with the same
\* source id.
C3_LedgerUniqueSourceId ==
  \A u \in UIDs, i \in InvoiceIds : LedgerCount(users[u], i) <= 1

\* C4: a delivery whose signature does not verify is answered 400 at once,
\* with no provider lookup and no store call made for it.
C4_BadSignatureRejected ==
  \A p \in Procs :
    (pc[p] # "idle" /\ event[p].sig # "valid") =>
      /\ pc[p] = "done"
      /\ resp[p] = <<400>>
      /\ calls[p] = [provider |-> 0, store |-> 0]
      /\ outcome[p] = "bad_signature"

\* C4 witness: a delivery with a bad signature was rejected while the user
\* has a record.
C4_Witness ==
  \E p \in Procs :
    /\ pc[p] = "done" /\ event[p].sig = "invalid" /\ resp[p] = <<400>>
    /\ event[p].type = "customer.subscription.deleted"
    /\ DocExists(users[event[p].uid])

C5_Step ==
  variant = "index" =>
    \A p \in Procs :
      LET e == event[p]
          data == Delta(e)
          d == users[e.uid]
      IN (CreditCommitted(p) /\ ~data.isUnlimited
            /\ LedgerCount(d, e.invoice) = 0) =>
           /\ users'[e.uid].credits = Cred(d) + data.creditsToAdd
           /\ LedgerCount(users'[e.uid], e.invoice) = 1
           /\ users'[e.uid].lastPaymentStatus = "active"

\* C5: in the invoice handler of src/index.js, a committed write for a
\* product that is not unlimited and an invoice id without ledger entry ends
\* with credits = C + N, one ledger entry for the id, lastPaymentStatus active.
C5_IndexInvoiceAddsCredits == [][C5_Step]_vars

FieldIs(d, k, v) == Has(d, k) /\ d[k] = v

C6_Step ==
  variant \in {"index", "p002"} =>
    \A p \in Procs :
      CancelCommitted(p) =>
        LET d == users'[event[p].uid]
        IN /\ FieldIs(d, "credits", 0)
           /\ FieldIs(d, "isUnlimited", FALSE)
           /\ FieldIs(d, "plan", "expired")
           /\ FieldIs(d, "lastPaymentStatus", "canceled")

\* C6: after a committed cancellation write of src/index.js or part_002 the
\* record has credits 0, isUnlimited false, plan "expired" and
\* lastPaymentStatus "canceled".
C6_CancelResult == [][C6_Step]_vars

\* The terminal state of a cancellation.
Terminal(d) ==
  /\ FieldIs(d, "credits", 0)
  /\ FieldIs(d, "isUnlimited", FALSE)
  /\ FieldIs(d, "plan", "expired")

\* d1 and d2 have the same fields with the same values, but for those in ks.
SameBut(d1, d2, ks) ==
  /\ DOMAIN d1 \ ks = DOMAIN d2 \ ks
  /\ \A k \in DOMAIN d1 \ ks : d1[k] = d2[k]

C7_Step ==
  \A p \in Procs :
    CancelCommitted(p) =>
      LET u == event[p].uid
      IN /\ Terminal(users'[u])
         /\ Terminal(users[u]) => SameBut(users'[u], users[u], {"updatedAt"})

\* C7: every committed cancellation write ends in the terminal state
\* (credits 0, isUnlimited false, plan "expired"), and one applied to a record
\* already in that state changes no field but updatedAt.
C7_CancelIdempotent == [][C7_Step]_vars

\* C7 witness: in src/index.js two cancellations were committed, and the
\* record, which held credits before, is in the terminal state.
C7_Witness ==
  /\ variant = "index"
  /\ \A p \in Procs : pc[p] = "done" /\ outcome[p] = "canceled"
  /\ \E i \in InvoiceIds : applied["u1"][i] = 1
  /\ Terminal(users["u1"])

C8_Step ==
  UsesUpdateFirestoreUser =>
    \A p \in Procs :
      LET e == event[p]
          data == Delta(e)
          d == users[e.uid]
      IN CreditCommitted(p) =>
           /\ data.isUnlimited => users'[e.uid].credits = UNLIMITED
           /\ (~data.isUnlimited /\ data.creditsToAdd >= 0
                 /\ FieldIs(d, "isUnlimited", TRUE)
                 /\ LedgerCount(d, e.invoice) = 0) =>
                users'[e.uid].credits = UNLIMITED

\* C8: a committed write of updateFirestoreUser with isUnlimited = true ends
\* with credits 999999, and one with isUnlimited = false, creditsToAdd >= 0
\* and a new invoice id, applied to a record flagged unlimited, leaves
\* credits at 999999.
C8_SentinelKept == [][C8_Step]_vars

\* C9: a record whose isUnlimited is true has credits 999999.
C9_UnlimitedHasSentinel ==
  \A u \in UIDs :
    FieldIs(users[u], "isUnlimited", TRUE) => FieldIs(users[u], "credits", UNLIMITED)

\* C9 witness: a record is flagged unlimited after two crediting writes.
C9_Witness ==
  \E u \in UIDs :
    /\ FieldIs(users[u], "isUnlimited", TRUE)
    /\ \A i \in InvoiceIds : applied[u][i] >= 1

C10_Step ==
  variant = "index" =>
    \A u \in UIDs :
      \/ Cred(users'[u]) >= Cred(users[u])
      \/ /\ \E p \in Procs : CancelCommitted(p) /\ event[p].uid = u
         /\ Cred(users'[u]) = 0

\* C10: in src/index.js a user's credits never decreases in a step other
\* than a committed cancellation write, which sets it to zero.
C10_IndexCreditsMonotone == [][C10_Step]_vars

\* The step in which slot p takes a delivery (the second slot takes one only
\* while the first is busy).
Received(p) ==
  /\ delivered' = delivered + 1
  /\ p = "w1" <=> ~Busy("w1")

C11_Step ==
  variant = "index" =>
    \A p \in Procs :
      (Received(p) /\ constructEvent(event'[p])
         /\ event'[p].type = "invoice.payment_failed") =>
        LET u == event'[p].uid
        IN /\ FieldIs(users'[u], "lastPaymentStatus", "payment-failed")
           /\ SameBut(users'[u], users[u], {"lastPaymentStatus", "updatedAt"})
           /\ resp'[p] = <<200>>

\* C11: handling an authenticated invoice.payment_failed event in src/index.js
\* leaves the user's lastPaymentStatus at "payment-failed", changes no other
\* field but the write's timestamp, and is answered with status 200.
C11_PaymentFailedRecorded == [][C11_Step]_vars

\* A slot holds an authenticated delivery of a type the draft has no handler
\* for.
UnhandledType(p) ==
  /\ pc[p] # "idle"
  /\ constructEvent(event[p])
  /\ event[p].type \notin Handled(variant)

C12_Step ==
  \A p \in Procs :
    (Received(p) /\ constructEvent(event'[p])
       /\ event'[p].type \notin Handled(variant)) =>
      users' = users /\ applied' = applied

\* C12: an authenticated event of a type the draft has no handler for is
\* answered with status 200 in the step that receives it, without any provider
\* or store call, and that step changes no user record.
C12_UnhandledTypeNoOp ==
  /\ [] (\A p \in Procs :
           UnhandledType(p) =>
             /\ pc[p] = "done"
             /\ resp[p] = <<200>>
             /\ calls[p] = [provider |-> 0, store |-> 0])
  /\ [][C12_Step]_vars

\* C12 witness: an invoice.payment_failed delivery was answered with 200 in
\* src/index.js for a user whose record holds credits.
C12_Witness ==
  /\ variant = "index"
  /\ UnhandledType("w1")
  /\ event["w1"].type = "invoice.payment_failed"
  /\ resp["w1"] = <<200>>
  /\ Cred(users[event["w1"].uid]) > 0

\* A slot holds an authenticated delivery of a handled type for which no uid
\* can be found: none in the subscription's metadata (src/index.js invoices),
\* none in the event (cancellations, part_000 invoices).
NoUidDelivery(p) ==
  /\ variant \in {"index", "p000"}
  /\ pc[p] # "idle"
  /\ constructEvent(event[p])
  /\ event[p].type \in Handled(variant)
  /\ event[p].hasSub
  /\ event[p].uid = NoUid

\* C13: a delivery of src/index.js or part_000 for which no uid can be found
\* never reaches a store call, and is answered with status 200 once the
\* handler has seen that the uid is missing (in src/index.js the subscription
\* lookup that carries the metadata has to succeed first).
C13_NoUidAcknowledged ==
  \A p \in Procs :
    NoUidDelivery(p) =>
      /\ calls[p].store = 0
      /\ pc[p] \notin {"get", "set", "cancel_set"}
      /\ (pc[p] = "done" /\ outcome[p] # "failed") => resp[p] = <<200>>
      /\ outcome[p] = "failed" => pc[p] = "done" /\ calls[p].provider = 1
                                    /\ event[p].type = "invoice.payment_succeeded"

\* C13 witness: src/index.js looked the subscription up, found no uid in its
\* metadata and answered 200, the user records being as they were.
C13_Witness ==
  \E p \in Procs :
    /\ NoUidDelivery(p)
    /\ variant = "index"
    /\ event[p].type = "invoice.payment_succeeded"
    /\ calls[p] = [provider |-> 1, store |-> 0]
    /\ outcome[p] = "no_uid"
    /\ resp[p] = <<200>>

\* C14: in src/index.js and part_003 a delivery whose provider lookup or store
\* write failed is answered with status 500.
C14_FailureSurfaced ==
  variant \in {"index", "p003"} =>
    \A p \in Procs :
      (pc[p] = "done" /\ outcome[p] = "failed" /\ event[p].hasSub) =>
        resp[p] = <<500>>

\* C15: a response is sent only by a handler that has no await left: while a
\* provider lookup or a store call of a delivery is pending, nothing has been
\* answered, and no delivery is answered twice.
C15_AckAfterAwaits ==
  \A p \in Procs :
    /\ pc[p] \in {"sub_retrieve", "prod_retrieve", "session_retrieve",
                  "get", "set", "cancel_set"} => resp[p] = <<>>
    /\ resp[p] # <<>> => pc[p] = "done" /\ Len(resp[p]) = 1

\* C15 witness: one delivery was answered 200 after its crediting write
\* committed while the store write of another is still pending, unanswered.
C15_Witness ==
  \E p, q \in Procs :
    /\ pc[p] = "done" /\ outcome[p] = "credited" /\ resp[p] = <<200>>
    /\ calls[p].store >= 1
    /\ pc[q] \in {"set", "cancel_set"} /\ resp[q] = <<>>

\* C16: when part_002 or part_003 receive the checkout of a first cycle and
\* the invoice.paid event of the same invoice (billing reason
\* subscription_create), in any order and interleaving, the invoice is
\* credited at most once and has as many ledger entries as crediting writes;
\* the delivery of the invoice.paid event never credits.
C16_FirstCycleOnce ==
  /\ \A u \in UIDs, i \in InvoiceIds :
       /\ applied[u][i] <= 1
       /\ LedgerCount(users[u], i) = applied[u][i]
  /\ \A p \in Procs :
       (event[p].type = "invoice.paid" /\ event[p].reason = "subscription_create")
         => outcome[p] \in {"none", "ignored"} /\ calls[p].store = 0

\* C16 witness: the checkout of the first cycle was credited and the
\* invoice.paid event of the same invoice was answered without a store call,
\* the invoice having been credited once.
C16_Witness ==
  \E p, q \in Procs :
    /\ event[p].type = "checkout.session.completed"
    /\ pc[p] = "done" /\ outcome[p] = "credited"
    /\ event[q].type = "invoice.paid" /\ event[q].reason = "subscription_create"
    /\ event[q].invoice = event[p].invoice /\ event[q].uid = event[p].uid
    /\ pc[q] = "done" /\ resp[q] = <<200>>
    /\ applied[event[p].uid][event[p].invoice] = 1

C17_Step ==
  \A u \in UIDs :
    /\ DocExists(users[u]) => DocExists(users'[u])
    /\ users'[u] # users[u] =>
         \E p \in Procs :
           /\ CreditCommitted(p) \/ CancelCommitted(p)
           /\ event[p].uid = u

\* C17: a user record that does not exist has received no crediting write; a
\* record changes only in the step that commits a crediting or cancellation
\* write of a delivery for that user; and a record that exists still exists
\* after every step.
C17_RecordNeverDeleted ==
  /\ [] (\A u \in UIDs :
           ~DocExists(users[u]) => \A i \in InvoiceIds : applied[u][i] = 0)
  /\ [][C17_Step]_vars

\* C17 witness: after three deliveries, the last one a committed
\* cancellation, the record that an earlier delivery credited exists.
C17_Witness ==
  \E u \in UIDs :
    /\ delivered >= 3
    /\ DocExists(users[u])
    /\ Terminal(users[u])
    /\ \E i \in InvoiceIds : applied[u][i] >= 1
    /\ \E p \in Procs : outcome[p] = "canceled" /\ event[p].uid = u

C18_Step ==
  UsesUpdateFirestoreUser =>
    \A p \in Procs :
      LET e == event[p]
          data == Delta(e)
      IN (CreditCommitted(p) /\ ~data.isUnlimited /\ applied[e.uid][e.invoice] = 0)
           => users'[e.uid].credits = Cred(users[e.uid]) + data.creditsToAdd

\* C18: the write of updateFirestoreUser (part_002, part_003) for an invoice
\* id not applied before commits the credits the store holds at that moment
\* plus creditsToAdd, whatever other writes came between its read and its
\* write.
C18_IncrementOnWrite == [][C18_Step]_vars

C19_Step ==
  UsesUpdateFirestoreUser =>
    \A p \in Procs :
      LET e == event[p]
      IN (pc[p] = "get" /\ pc'[p] # "get"
            /\ LedgerCount(users[e.uid], e.invoice) >= 1) =>
           /\ users' = users
           /\ applied' = applied
           /\ pc'[p] = "done"
           /\ outcome'[p] \in {"duplicate", "failed"}

\* C19: when updateFirestoreUser (part_002, part_003) reads a record whose
\* ledger holds the invoice id, the delivery ends without a write: no field
\* of any record changes, so a record canceled after the purchase stays
\* canceled when the purchase is delivered again.
C19_DuplicateSkipsWrite == [][C19_Step]_vars

\* C19 witness: in part_002 a purchase was applied, the subscription was
\* canceled, and the purchase delivered again was skipped as a duplicate: the
\* record has credits 0 and plan "expired".
C19_Witness ==
  \E p \in Procs :
    LET e == event[p]
    IN /\ variant = "p002"
       /\ pc[p] = "done" /\ outcome[p] = "duplicate"
       /\ Terminal(users[e.uid])
       /\ LedgerCount(users[e.uid], e.invoice) = 1

\* C20: in part_000 every authenticated delivery whose handler has ended has
\* been answered.
C20_AuthenticatedAnswered ==
  variant = "p000" =>
    \A p \in Procs :
      (constructEvent(event[p]) /\ pc[p] \in {"done", "hung"}) => resp[p] # <<>>

\* The record src/index.js leaves when its invoice write for e commits on
\* the record d: the fields of updateData but the timestamp.
IndexResult(d, e) ==
  LET data == Delta(e)
  IN [credits           |-> IF data.isUnlimited THEN UNLIMITED ELSE data.creditsToAdd,
      isUnlimited       |-> data.isUnlimited,
      plan              |-> data.planName,
      lastPaymentStatus |-> "active",
      subscriptionId    |-> Subscription(e),
      stripeCustomerId  |-> Customer(e)] @@ d

C21_Step ==
  variant = "index" =>
    \A p \in Procs :
      LET e == event[p]
      IN (e.type = "invoice.payment_succeeded" /\ pc'[p] # pc[p]
            /\ pc[p] \in {"sub_retrieve", "prod_retrieve", "set"}) =>
           /\ resp'[p] = <<500>> <=> outcome'[p] = "failed"
           /\ ~CreditCommitted(p) => users' = users /\ applied' = applied
           /\ CreditCommitted(p) =>
                SameBut(users'[e.uid], IndexResult(users[e.uid], e), {"updatedAt"})

\* C21: in the invoice handler of src/index.js a lookup or write that fails
\* is answered 500 and no step of that delivery has changed a record; the
\* write of a delivery that succeeds leaves a record that depends only on
\* the event and the record before it, so a redelivery after a failure ends
\* as a first delivery that succeeded.
C21_FailureLeavesNoState == [][C21_Step]_vars

\* C21 witness: in src/index.js one delivery of an invoice was answered 500
\* and another delivery of the same event was credited; the record holds the
\* credits of the product.
C21_Witness ==
  \E p, q \in Procs :
    /\ variant = "index"
    /\ event[p] = event[q]
    /\ event[p].type = "invoice.payment_succeeded"
    /\ outcome[q] = "failed" /\ resp[q] = <<500>>
    /\ outcome[p] = "credited" /\ resp[p] = <<200>>
    /\ SameBut(users[event[p].uid], IndexResult(NoDoc, event[p]), {"updatedAt"})

\* A decimal string: one digit or more and nothing else.
WellFormed(str) == Len(str) >= 1 /\ \A i \in 1..Len(str) : IsDigit(str[i])

\* C22: whatever the credits field of the product metadata holds, the
\* resolved credits are a non-negative integer: the value of the field when
\* it is a decimal string, zero when it is missing or anything else.
C22_CreditsNonNegative ==
  resolved # <<>> =>
    /\ resolved[1] # NaN
    /\ resolved[1] >= 0
    /\ IF Has(metadata, "credits") /\ WellFormed(metadata.credits)
       THEN resolved[1] = ParseDigits(metadata.credits, 1, 0)
       ELSE resolved[1] = 0

\* The fields the claim allows a cancellation to write.
StatusFields ==
  {"credits", "isUnlimited", "plan", "lastPaymentStatus", "updatedAt"}

C23_Step ==
  variant \in {"index", "p002"} =>
    \A p \in Procs :
      LET u == event[p].uid
      IN (pc[p] = "cancel_set" /\ pc'[p] # pc[p]) =>
           /\ calls'[p] = [provider |-> 0, store |-> 1]
           /\ outcome'[p] \in {"canceled", "failed"}
           /\ CancelCommitted(p) =>
                /\ Terminal(users'[u])
                /\ SameBut(users'[u], users[u], StatusFields)
                /\ LedgerOf(users'[u]) = LedgerOf(users[u])

IndexStatus(p) ==
  CASE outcome[p] = "bad_signature" -> 400
    [] outcome[p] = "failed" /\ event[p].type = "invoice.payment_succeeded" -> 500
    [] OTHER -> 200

\* C24: a delivery to src/index.js is never answered twice, and one whose
\* handler has ended was answered exactly once, with the status of its path:
\* 400 for a bad signature, 500 for a failed invoice, 200 otherwise.
C24_OneResponse ==
  variant = "index" =>
    \A p \in Procs :
      /\ Len(resp[p]) <= 1
      /\ pc[p] = "done" => resp[p] = <<IndexStatus(p)>>

\* C24 witness: src/index.js answered one delivery with 400 and another,
\* whose lookup or write failed, with 500, each exactly once.
C24_Witness ==
  \E p, q \in Procs :
    /\ variant = "index"
    /\ pc[p] = "done" /\ resp[p] = <<400>>
    /\ pc[q] = "done" /\ resp[q] = <<500>>

C25_Step ==
  variant = "index" =>
    \A p \in Procs :
      LET e == event[p]
          d == users[e.uid]
      IN (CreditCommitted(p) /\ SameBut(d, IndexResult(NoDoc, e), {"updatedAt"}))
           => SameBut(users'[e.uid], d, {"updatedAt"})

\* C25: in src/index.js the invoice write for an event, committed on the
\* record that a delivery of the same event left, changes no field but
\* updatedAt: handling the event twice gives the credits, isUnlimited, plan,
\* lastPaymentStatus, subscriptionId and stripeCustomerId of handling it once.
C25_IndexInvoiceIdempotent == [][C25_Step]_vars

\* C25 witness: two deliveries of the same invoice.payment_succeeded event
\* were credited by src/index.js and nothing else was delivered; the record
\* holds the credits of the product once.
C25_Witness ==
  /\ variant = "index"
  /\ delivered = 2
  /\ event["w1"] = event["w2"]
  /\ event["w1"].type = "invoice.payment_succeeded"
  /\ \A p \in Procs : pc[p] = "done" /\ outcome[p] = "credited"
  /\ applied[event["w1"].uid][event["w1"].invoice] = 2
  /\ SameBut(users[event["w1"].uid], IndexResult(NoDoc, event["w1"]), {"updatedAt"})
  /\ Cred(users[event["w1"].uid]) = 50

C26_Step ==
  \A p \in Procs :
    (pc'[p] # pc[p] \/ resp'[p] # resp[p] \/ calls'[p] # calls[p]) =>
      \A u \in UIDs \ {event'[p].uid} :
        users'[u] = users[u] /\ applied'[u] = applied[u]

\* C26: a step of the handler of a delivery changes no record but that of
\* the uid resolved for the delivery, whatever the handlers of deliveries
\* for other users are doing.
C26_OnlyResolvedUserWritten == [][C26_Step]_vars

\* C26 witness: src/index.js credited a delivery for u1 and, overlapping with
\* it, one for u2; each record holds the customer of its own delivery.
C26_Witness ==
  \E p, q \in Procs :
    /\ variant = "index"
    /\ event[p].uid = "u1" /\ event[q].uid = "u2"
    /\ outcome[p] = "credited" /\ outcome[q] = "credited"
    /\ FieldIs(users["u1"], "stripeCustomerId", Customer(event[p]))
    /\ FieldIs(users["u2"], "stripeCustomerId", Customer(event[q]))

====
